---- MODULE Spec2Model ----
(***************************************************************************)
(* A model of palettecraft's core (src/palettecraft/core.py):              *)
(*   - rgb_to_hex / hex_to_rgb         (specification SpecHex)             *)
(*   - complementary_color             (specification SpecComp)            *)
(*   - extract_palette                 (specification SpecPalette,         *)
(*                                      SpecPaletteFair)                   *)
(* Strings are sequences of one-character strings.  Real numbers that the  *)
(* code holds as Python floats in colorsys are modelled as exact fractions *)
(* <<numerator, denominator>>; the centroid arithmetic of the k-means fit  *)
(* is modelled as binary floating point with MantBits significant bits.    *)
(***************************************************************************)
EXTENDS Integers, Sequences, FiniteSets, TLC

VARIABLES
    hx_pc,      \* "rgb" | "text" | "parsed": position of the hex driver
    hx_rgb,     \* the triple handed to rgb_to_hex (<<>> when none)
    hx_text,    \* the string handed to hex_to_rgb
    hx_result,  \* what hex_to_rgb produced: [ok, rgb]
    cc_pc,      \* "in" | "once" | "twice": position of the complement driver
    cc_color,   \* the triple handed to complementary_color
    cc_once,    \* complementary_color(cc_color)
    cc_twice,   \* complementary_color(cc_once)
    pc,         \* position inside extract_palette: "off" | "idle" | "lloyd" |
                \*   "fitted" | "done" | "error"
    pixels,     \* the flattened image: a sequence of RGB triples
    num_colors, \* the num_colors argument
    mt,         \* the state a generator seeded with 0 starts from (fixed)
    np_random,  \* the state of numpy's global generator
    X,          \* the fit's copy of the samples, mean-centred (floats)
    tol,        \* the fit's tolerance on the centre shift (float)
    centers,    \* the centroids of the running fit (mean-centred floats)
    labels_old, \* the labels of the previous Lloyd iteration (0: none)
    n_iter,     \* Lloyd iterations done by the running fit
    stop,       \* why the Lloyd loop ended: "" | "strict" | "tol" | "max_iter"
    cluster_centers, \* KMeans.cluster_centers_ of the finished fit
    palette,    \* the returned list of PaletteColor rgb triples
    prev,       \* outcome of the previous call on the same input
    calls       \* calls of extract_palette started so far

hexVars == <<hx_pc, hx_rgb, hx_text, hx_result>>
compVars == <<cc_pc, cc_color, cc_once, cc_twice>>
palVars == <<pc, pixels, num_colors, mt, np_random, X, tol, centers, labels_old, n_iter,
             stop, cluster_centers, palette, prev, calls>>
vars == <<hexVars, compVars, palVars>>

(***************************************************************************)
(* Bounds of the model.                                                    *)
(***************************************************************************)
\* how many leading '#' an input string of hex_to_rgb may carry
MaxHashes == 2
\* input bodies of hex_to_rgb are HexLen-1 .. HexLen-1+BodySpread characters long
BodySpread == 2

\* the longest pixel sequence handed to extract_palette
MaxPixels == 3
\* the generator has RngModulus states; its uniform output is state / RngModulus
RngModulus == 8
\* the colours a pixel may have
Colors == {<<0, 0, 0>>, <<255, 255, 255>>, <<255, 0, 0>>, <<0, 128, 0>>}
\* longer images handed to extract_palette next to the short sequences:
\* five pixels of one dark grey and two of another
SampleImages ==
    {<<<<1, 1, 1>>, <<1, 1, 1>>, <<1, 1, 1>>, <<1, 1, 1>>, <<1, 1, 1>>,
       <<4, 4, 4>>, <<4, 4, 4>>>>}

\* channel values the drivers draw colours from
ChannelSamples == {0, 1, 9, 10, 15, 16, 127, 128, 254, 255}
\* characters an input body of hex_to_rgb is drawn from
BodyAlphabet == {"7", "c", "E", "g", "+"}

Triples(S) == {<<r, g, b>> : r \in S, g \in S, b \in S}

Min2(a, b) == IF a <= b THEN a ELSE b
Max2(a, b) == IF a >= b THEN a ELSE b
Abs(a) == IF a < 0 THEN -a ELSE a
\* a function on 1..n as a sequence
AsSeq(f) == SubSeq(f, 1, Len(f))

(***************************************************************************)
(* rgb_to_hex: "#" + "".join(f"{c:02x}" for c in color)                    *)
(***************************************************************************)
LowerHexDigits == <<"0", "1", "2", "3", "4", "5", "6", "7",
                    "8", "9", "a", "b", "c", "d", "e", "f">>
UpperHexDigits == <<"0", "1", "2", "3", "4", "5", "6", "7",
                    "8", "9", "A", "B", "C", "D", "E", "F">>

\* the lowercase hexadecimal digits of a non-negative integer (format type x)
RECURSIVE ToHex(_)
ToHex(n) ==
    IF n < 16 THEN <<LowerHexDigits[n + 1]>>
    ELSE ToHex(n \div 16) \o <<LowerHexDigits[(n % 16) + 1]>>

\* left padding with "0" up to a minimum width
RECURSIVE ZeroPad(_, _)
ZeroPad(s, width) == IF Len(s) >= width THEN s ELSE ZeroPad(<<"0">> \o s, width)

\* a format spec without the zero-padded width: f"{c:x}"
FormatChannelNoPad(c) == ToHex(c)

\* f"{c:02x}"
FormatChannel(c) == ZeroPad(ToHex(c), 2)

RECURSIVE Join(_)
Join(parts) == IF parts = <<>> THEN <<>> ELSE Head(parts) \o Join(Tail(parts))

rgb_to_hex(color) ==
    <<"#">> \o Join([i \in 1..Len(color) |-> FormatChannel(color[i])])

(***************************************************************************)
(* hex_to_rgb: lstrip("#"), length check, int(chunk, 16) per chunk.        *)
(***************************************************************************)
\* the length the stripped string must have (core.py line 69)
HexLen == 6

IsHexDigit(ch) ==
    \E i \in 1..16 : LowerHexDigits[i] = ch \/ UpperHexDigits[i] = ch
HexValue(ch) ==
    (CHOOSE i \in 1..16 : LowerHexDigits[i] = ch \/ UpperHexDigits[i] = ch) - 1

\* str.lstrip("#"): drops every leading '#'
RECURSIVE lstrip(_, _)
lstrip(s, ch) ==
    IF s # <<>> /\ Head(s) = ch THEN lstrip(Tail(s), ch) ELSE s

\* a strip that drops at most one leading character
lstripOne(s, ch) == IF s # <<>> /\ Head(s) = ch THEN Tail(s) ELSE s

IsSpace(ch) == ch = " "

RECURSIVE StripLeft(_)
StripLeft(s) == IF s # <<>> /\ IsSpace(Head(s)) THEN StripLeft(Tail(s)) ELSE s
RECURSIVE StripRight(_)
StripRight(s) ==
    IF s # <<>> /\ IsSpace(s[Len(s)]) THEN StripRight(SubSeq(s, 1, Len(s) - 1)) ELSE s

\* digits of an integer literal: hex digits, single underscores between them
\* (afterDigit: the previous character was a digit)
RECURSIVE DigitsOk(_, _)
DigitsOk(s, afterDigit) ==
    IF s = <<>> THEN afterDigit
    ELSE IF IsHexDigit(Head(s)) THEN DigitsOk(Tail(s), TRUE)
    ELSE IF Head(s) = "_" THEN afterDigit /\ DigitsOk(Tail(s), FALSE)
    ELSE FALSE

RECURSIVE DigitsValue(_, _)
DigitsValue(s, acc) ==
    IF s = <<>> THEN acc
    ELSE IF Head(s) = "_" THEN DigitsValue(Tail(s), acc)
    ELSE DigitsValue(Tail(s), 16 * acc + HexValue(Head(s)))

\* Python's int(text, 16): surrounding whitespace, an optional sign, an
\* optional 0x / 0X prefix (which may be followed by one underscore), digits.
int16(text) ==
    LET t == StripRight(StripLeft(text))
        signed == t # <<>> /\ Head(t) \in {"+", "-"}
        neg == t # <<>> /\ Head(t) = "-"
        u == IF signed THEN Tail(t) ELSE t
        prefixed == Len(u) >= 2 /\ u[1] = "0" /\ u[2] \in {"x", "X"}
        v == IF prefixed THEN SubSeq(u, 3, Len(u)) ELSE u
        w == IF prefixed /\ v # <<>> /\ Head(v) = "_" THEN Tail(v) ELSE v
        ok == w # <<>> /\ DigitsOk(w, FALSE)
        val == IF ok THEN DigitsValue(w, 0) ELSE 0
    IN  [ok |-> ok, val |-> IF neg THEN -val ELSE val]

\* the raise ValueError outcome
ValueError == [ok |-> FALSE, rgb |-> <<>>]

hex_to_rgb(value) ==
    LET v == lstrip(value, "#")
    IN  IF Len(v) # HexLen THEN ValueError
        ELSE LET parts == [i \in 1..3 |-> int16(SubSeq(v, 2 * i - 1, 2 * i))]
             IN  IF \E i \in 1..3 : ~parts[i].ok THEN ValueError
                 ELSE [ok |-> TRUE, rgb |-> [i \in 1..3 |-> parts[i].val]]

(***************************************************************************)
(* Exact fractions <<n, d>>, d > 0, in lowest terms.                       *)
(***************************************************************************)
RECURSIVE GCD(_, _)
GCD(a, b) == IF b = 0 THEN a ELSE GCD(b, a % b)

Frac(n, d) ==
    LET s == IF d < 0 THEN -1 ELSE 1
        g == GCD(Abs(n), Abs(d))
    IN  IF n = 0 THEN <<0, 1>> ELSE <<(s * n) \div g, (s * d) \div g>>
FInt(n) == <<n, 1>>
\* sums are taken over the least common denominator
FAdd(x, y) ==
    LET g == GCD(x[2], y[2])
    IN  Frac(x[1] * (y[2] \div g) + y[1] * (x[2] \div g), (x[2] \div g) * y[2])
FNeg(x) == <<-x[1], x[2]>>
FSub(x, y) == FAdd(x, FNeg(y))
FMul(x, y) == Frac(x[1] * y[1], x[2] * y[2])
FDiv(x, y) == Frac(x[1] * y[2], x[2] * y[1])
FLt(x, y) == x[1] * y[2] < y[1] * x[2]
FLe(x, y) == x[1] * y[2] <= y[1] * x[2]
FFloor(x) == x[1] \div x[2]
\* x % 1.0
FMod1(x) == FSub(x, FInt(FFloor(x)))
FMax(x, y) == IF FLt(x, y) THEN y ELSE x
FMin(x, y) == IF FLt(y, x) THEN y ELSE x

\* Python's round(): to the nearest integer, halves to the even one
PyRound(x) ==
    LET f == FFloor(x)
        twice == FSub(FMul(FInt(2), x), FInt(2 * f))   \* 2 * (x - f), in [0, 2)
    IN  IF FLt(twice, FInt(1)) THEN f
        ELSE IF FLt(FInt(1), twice) THEN f + 1
        ELSE IF f % 2 = 0 THEN f ELSE f + 1

(***************************************************************************)
(* colorsys.rgb_to_hls / hls_to_rgb, as complementary_color calls them.    *)
(***************************************************************************)
ONE_THIRD == <<1, 3>>
ONE_SIXTH == <<1, 6>>
TWO_THIRD == <<2, 3>>
HALF == <<1, 2>>

rgb_to_hls(r, g, b) ==
    LET maxc == FMax(r, FMax(g, b))
        minc == FMin(r, FMin(g, b))
        sumc == FAdd(maxc, minc)
        rangec == FSub(maxc, minc)
        l == FDiv(sumc, FInt(2))
    IN  IF minc = maxc THEN <<FInt(0), l, FInt(0)>>
        ELSE LET s == IF FLe(l, HALF) THEN FDiv(rangec, sumc)
                      ELSE FDiv(rangec, FSub(FSub(FInt(2), maxc), minc))
                 rc == FDiv(FSub(maxc, r), rangec)
                 gc == FDiv(FSub(maxc, g), rangec)
                 bc == FDiv(FSub(maxc, b), rangec)
                 h == IF r = maxc THEN FSub(bc, gc)
                      ELSE IF g = maxc THEN FAdd(FInt(2), FSub(rc, bc))
                      ELSE FAdd(FInt(4), FSub(gc, rc))
             IN  <<FMod1(FDiv(h, FInt(6))), l, s>>

hls_v(m1, m2, hue0) ==
    LET hue == FMod1(hue0)
    IN  IF FLt(hue, ONE_SIXTH)
            THEN FAdd(m1, FMul(FMul(FSub(m2, m1), hue), FInt(6)))
        ELSE IF FLt(hue, HALF) THEN m2
        ELSE IF FLt(hue, TWO_THIRD)
            THEN FAdd(m1, FMul(FMul(FSub(m2, m1), FSub(TWO_THIRD, hue)), FInt(6)))
        ELSE m1

hls_to_rgb(h, l, s) ==
    IF s = FInt(0) THEN <<l, l, l>>
    ELSE LET m2 == IF FLe(l, HALF) THEN FMul(l, FAdd(FInt(1), s))
                   ELSE FSub(FAdd(l, s), FMul(l, s))
             m1 == FSub(FMul(FInt(2), l), m2)
         IN  <<hls_v(m1, m2, FAdd(h, ONE_THIRD)),
               hls_v(m1, m2, h),
               hls_v(m1, m2, FSub(h, ONE_THIRD))>>

\* a rotation by a third of the wheel instead of half of it
RotateHueThird(h) == FMod1(FAdd(h, ONE_THIRD))

\* h = (h + 0.5) % 1.0
RotateHue(h) == FMod1(FAdd(h, HALF))

complementary_color(color) ==
    LET r == Frac(color[1], 255)
        g == Frac(color[2], 255)
        b == Frac(color[3], 255)
        hls == rgb_to_hls(r, g, b)
        h == RotateHue(hls[1])
        rgb2 == hls_to_rgb(h, hls[2], hls[3])
    IN  [i \in 1..3 |-> PyRound(FMul(rgb2[i], FInt(255)))]

(***************************************************************************)
(* Binary floating point, round-to-nearest-even, MantBits significant     *)
(* bits: a value is <<m, e>>, meaning m * 2^e, with m = 0 and e = 0 or     *)
(* 2^(MantBits-1) <= |m| < 2^MantBits.  The k-means fit computes the       *)
(* centroids in float64; the model keeps the rounding and narrows the      *)
(* significand.                                                            *)
(***************************************************************************)
MantBits == 12

Pow2Table == <<1, 2, 4, 8, 16, 32, 64, 128, 256, 512, 1024, 2048, 4096, 8192,
               16384, 32768, 65536, 131072, 262144, 524288, 1048576, 2097152,
               4194304, 8388608, 16777216, 33554432, 67108864, 134217728,
               268435456, 536870912, 1073741824>>
Pow2(n) == Pow2Table[n + 1]

\* the number of binary digits of a positive integer
RECURSIVE BitLen(_)
BitLen(a) == IF a = 0 THEN 0 ELSE 1 + BitLen(a \div 2)

FlZero == <<0, 0>>

\* the float nearest to m * 2^e
FlNorm(m, e) ==
    IF m = 0 THEN FlZero
    ELSE LET sgn == IF m < 0 THEN -1 ELSE 1
             a == Abs(m)
             s == BitLen(a) - MantBits
         IN  IF s <= 0 THEN <<sgn * a * Pow2(-s), e + s>>
             ELSE LET q == a \div Pow2(s)
                      r == a % Pow2(s)
                      half == Pow2(s - 1)
                      up == r > half \/ (r = half /\ q % 2 = 1)
                      rounded == IF up THEN q + 1 ELSE q
                  IN  IF rounded = Pow2(MantBits)
                          THEN <<sgn * Pow2(MantBits - 1), e + s + 1>>
                          ELSE <<sgn * rounded, e + s>>

FlInt(n) == FlNorm(n, 0)
FlNeg(x) == <<-x[1], x[2]>>

FlAdd(x, y) ==
    IF x[1] = 0 THEN y
    ELSE IF y[1] = 0 THEN x
    ELSE IF x[2] - y[2] > MantBits + 2 THEN x
    ELSE IF y[2] - x[2] > MantBits + 2 THEN y
    ELSE LET e == Min2(x[2], y[2])
         IN  FlNorm(x[1] * Pow2(x[2] - e) + y[1] * Pow2(y[2] - e), e)

FlSub(x, y) == FlAdd(x, FlNeg(y))
FlMul(x, y) == FlNorm(x[1] * y[1], x[2] + y[2])

\* the quotient a / d of two positive integers, by long division: the binary
\* digits of the quotient are produced until MantBits + 2 of them follow the
\* leading one, and the remainder is kept as a sticky digit
RECURSIVE FlDivDigits(_, _, _, _)
FlDivDigits(q, r, d, e) ==
    IF q >= Pow2(MantBits + 2)
        THEN FlNorm(2 * q + (IF r = 0 THEN 0 ELSE 1), e - 1)
    ELSE IF 2 * r >= d THEN FlDivDigits(2 * q + 1, 2 * r - d, d, e - 1)
    ELSE FlDivDigits(2 * q, 2 * r, d, e - 1)

FlDiv(a, d) ==
    IF a = 0 THEN FlZero
    ELSE IF a < 0 THEN FlNeg(FlDivDigits((-a) \div d, (-a) % d, d, 0))
    ELSE FlDivDigits(a \div d, a % d, d, 0)

FlSign(x) == IF x[1] > 0 THEN 1 ELSE IF x[1] < 0 THEN -1 ELSE 0
\* comparison of two positive floats
FlPosLt(x, y) == x[2] < y[2] \/ (x[2] = y[2] /\ x[1] < y[1])
FlLt(x, y) ==
    IF FlSign(x) # FlSign(y) THEN FlSign(x) < FlSign(y)
    ELSE IF FlSign(x) = 0 THEN FALSE
    ELSE IF FlSign(x) > 0 THEN FlPosLt(x, y)
    ELSE FlPosLt(FlNeg(y), FlNeg(x))
FlLe(x, y) == ~FlLt(y, x)

\* ndarray.astype(int): the fractional part is dropped (towards zero)
FlTrunc(x) ==
    IF x[2] >= 0 THEN x[1] * Pow2(x[2])
    ELSE IF -x[2] >= MantBits THEN 0
    ELSE IF x[1] >= 0 THEN x[1] \div Pow2(-x[2])
    ELSE -((-x[1]) \div Pow2(-x[2]))

\* rounding to the nearest integer, halves to the even one (numpy.rint)
FlRint(x) ==
    IF x[2] >= 0 THEN x[1] * Pow2(x[2])
    ELSE IF -x[2] > MantBits + 1 THEN 0
    ELSE LET a == Abs(x[1])
             q == a \div Pow2(-x[2])
             r == a % Pow2(-x[2])
             half == Pow2(-x[2] - 1)
             n == IF r > half \/ (r = half /\ q % 2 = 1) THEN q + 1 ELSE q
         IN  IF x[1] < 0 THEN -n ELSE n

(***************************************************************************)
(* sklearn.cluster.KMeans(n_clusters=num_colors, random_state=0).fit, as   *)
(* extract_palette calls it (core.py lines 114-115): the defaults          *)
(* init="k-means++", n_init="auto" (one run), max_iter=300, tol=1e-4,      *)
(* algorithm="lloyd", unit sample weights.                                 *)
(***************************************************************************)
\* KMeans' default max_iter
max_iter == 300
\* KMeans' default tol is 1e-4 = 1 / TolInverse
TolInverse == 10000

RECURSIVE SumInts(_)
SumInts(s) == IF s = <<>> THEN 0 ELSE Head(s) + SumInts(Tail(s))
RECURSIVE FlSum(_)
\* a left-to-right float sum
FlSum(s) == IF s = <<>> THEN FlZero ELSE FlAdd(FlSum(SubSeq(s, 1, Len(s) - 1)), s[Len(s)])

Column(px, c) == AsSeq([i \in 1..Len(px) |-> px[i][c]])

\* X.mean(axis=0)
X_mean(px) ==
    <<FlDiv(SumInts(Column(px, 1)), Len(px)),
      FlDiv(SumInts(Column(px, 2)), Len(px)),
      FlDiv(SumInts(Column(px, 3)), Len(px))>>

\* X -= X_mean
Centered(px) ==
    LET m == X_mean(px)
    IN  AsSeq([i \in 1..Len(px) |->
                 <<FlSub(FlInt(px[i][1]), m[1]),
                   FlSub(FlInt(px[i][2]), m[2]),
                   FlSub(FlInt(px[i][3]), m[3])>>])

\* _tolerance: mean(var(X, axis=0)) * tol
Tolerance(px) ==
    LET n == Len(px)
        nvar(c) == n * SumInts(AsSeq([i \in 1..n |-> px[i][c] * px[i][c]]))
                   - SumInts(Column(px, c)) * SumInts(Column(px, c))
    IN  FlDiv(nvar(1) + nvar(2) + nvar(3), 3 * n * n * TolInverse)

\* squared euclidean distance of two float vectors
FlSquare(x) == FlMul(x, x)
SqDist(x, y) ==
    FlSum(<<FlSquare(FlSub(x[1], y[1])),
            FlSquare(FlSub(x[2], y[2])),
            FlSquare(FlSub(x[3], y[3]))>>)

\* the first position of a minimum (numpy.argmin)
RECURSIVE ArgMinFrom(_, _, _)
ArgMinFrom(v, i, best) ==
    IF i > Len(v) THEN best
    ELSE ArgMinFrom(v, i + 1, IF FlLt(v[i], v[best]) THEN i ELSE best)
ArgMin(v) == ArgMinFrom(v, 2, 1)

\* ---- random_state -------------------------------------------------------
\* The generator (numpy's Mersenne Twister) is modelled as a generator of
\* RngModulus states that steps by a fixed odd stride; what state a seed
\* leads to is left open (mt is any state, fixed for the whole run).
RngNext(state) == (state + 5) % RngModulus

\* the states behind the next `count` outputs
RECURSIVE RngDraws(_, _)
RngDraws(state, count) ==
    IF count <= 0 THEN <<>>
    ELSE <<RngNext(state)>> \o RngDraws(RngNext(state), count - 1)

RECURSIVE RngAdvance(_, _)
RngAdvance(state, count) ==
    IF count <= 0 THEN state ELSE RngAdvance(RngNext(state), count - 1)

\* the random_state argument left unset (None): the global generator is used
RandomStateNone == [seeded |-> FALSE, seed |-> 0]

\* random_state=0 (core.py line 114)
random_state == [seeded |-> TRUE, seed |-> 0]

\* check_random_state: a fresh generator in the state its seed leads to, or
\* numpy's global generator in the state earlier calls left it in
check_random_state(rs, seeded_state, global_state) ==
    IF rs.seeded THEN seeded_state ELSE global_state

\* ---- k-means++ ----------------------------------------------------------
\* n_local_trials = 2 + int(log(n_clusters))
NLocalTrials(k) == 2 + (IF k < 3 THEN 0 ELSE IF k < 8 THEN 1 ELSE IF k < 21 THEN 2 ELSE 3)

\* outputs of the generator one fit consumes
DrawsNeeded(k) == 1 + (k - 1) * NLocalTrials(k)

\* random_state.choice(n): the uniform output u picks floor(u * n)
Choice(raw, n) == (raw * n) \div RngModulus

\* stable_cumsum
CumSum(v) == AsSeq([i \in 1..Len(v) |-> FlSum(SubSeq(v, 1, i))])

\* numpy.searchsorted(a, val) (side "left"), clipped to the last index
RECURSIVE SearchSortedFrom(_, _, _)
SearchSortedFrom(a, val, i) ==
    IF i > Len(a) THEN Len(a)
    ELSE IF ~FlLt(a[i], val) THEN i
    ELSE SearchSortedFrom(a, val, i + 1)
SearchSorted(a, val) == SearchSortedFrom(a, val, 1)

\* one round of k-means++: the candidates of the round's draws, the one that
\* lowers the potential most; returns <<sample index, new closest_dist_sq>>
PlusPlusPick(Xc, closest, raws) ==
    LET pot == FlSum(closest)
        cum == CumSum(closest)
        cand == AsSeq([t \in 1..Len(raws) |->
                    SearchSorted(cum, FlMul(FlDiv(raws[t], RngModulus), pot))])
        dist == AsSeq([t \in 1..Len(raws) |->
                    AsSeq([i \in 1..Len(Xc) |->
                      LET d == SqDist(Xc[cand[t]], Xc[i])
                      IN  IF FlLt(d, closest[i]) THEN d ELSE closest[i]])])
        pots == AsSeq([t \in 1..Len(raws) |-> FlSum(dist[t])])
        best == ArgMin(pots)
    IN  <<cand[best], dist[best]>>

RECURSIVE PlusPlusLoop(_, _, _, _, _, _)
PlusPlusLoop(Xc, k, ids, closest, raws, trials) ==
    IF Len(ids) >= k THEN ids
    ELSE LET pick == PlusPlusPick(Xc, closest, SubSeq(raws, 1, trials))
         IN  PlusPlusLoop(Xc, k, Append(ids, pick[1]), pick[2],
                          SubSeq(raws, trials + 1, Len(raws)), trials)

\* _kmeans_plusplus: the sample indices taken as initial centres
kmeans_plusplus(Xc, k, raws) ==
    LET first == Choice(raws[1], Len(Xc)) + 1
        closest == AsSeq([i \in 1..Len(Xc) |-> SqDist(Xc[first], Xc[i])])
    IN  PlusPlusLoop(Xc, k, <<first>>, closest, Tail(raws), NLocalTrials(k))

\* ---- one Lloyd iteration ------------------------------------------------
\* E-step: each sample goes to its nearest centre, the lowest index on ties
Labels(Xc, ctr) ==
    AsSeq([i \in 1..Len(Xc) |->
             ArgMin(AsSeq([j \in 1..Len(ctr) |-> SqDist(Xc[i], ctr[j])]))])

ZeroVec == <<FlZero, FlZero, FlZero>>
VecAdd(x, y) == <<FlAdd(x[1], y[1]), FlAdd(x[2], y[2]), FlAdd(x[3], y[3])>>
VecSub(x, y) == <<FlSub(x[1], y[1]), FlSub(x[2], y[2]), FlSub(x[3], y[3])>>
VecScale(x, a) == <<FlMul(x[1], a), FlMul(x[2], a), FlMul(x[3], a)>>

\* the sum of the samples of cluster j, accumulated in sample order
RECURSIVE ClusterSum(_, _, _, _)
ClusterSum(Xc, labels, j, i) ==
    IF i = 0 THEN ZeroVec
    ELSE IF labels[i] = j THEN VecAdd(ClusterSum(Xc, labels, j, i - 1), Xc[i])
    ELSE ClusterSum(Xc, labels, j, i - 1)

ClusterWeight(labels, j) == Cardinality({i \in 1..Len(labels) : labels[i] = j})

Swap(s, i, j) == [s EXCEPT ![i] = s[j], ![j] = s[i]]

\* numpy's selection for a small kth: a selection sort of positions 1..kth
RECURSIVE MinPosFrom(_, _, _, _)
MinPosFrom(v, perm, i, best) ==
    IF i > Len(perm) THEN best
    ELSE MinPosFrom(v, perm, i + 1, IF FlLt(v[perm[i]], v[perm[best]]) THEN i ELSE best)
RECURSIVE DumbSelect(_, _, _, _)
DumbSelect(v, perm, i, kth) ==
    IF i > kth THEN perm
    ELSE DumbSelect(v, Swap(perm, i, MinPosFrom(v, perm, i + 1, i)), i + 1, kth)

\* numpy's selection for kth = last: the last maximum is swapped to the end
RECURSIVE MaxPosFrom(_, _, _, _)
MaxPosFrom(v, perm, i, best) ==
    IF i > Len(perm) THEN best
    ELSE MaxPosFrom(v, perm, i + 1, IF ~FlLt(v[perm[i]], v[perm[best]]) THEN i ELSE best)

\* numpy.argpartition(v, kth) (kth counted from 1 here)
ArgPartition(v, kth) ==
    LET id == AsSeq([i \in 1..Len(v) |-> i])
    IN  IF kth - 1 < 3 THEN DumbSelect(v, id, 1, kth)
        ELSE IF kth = Len(v) THEN Swap(id, kth, MaxPosFrom(v, id, 2, 1))
        ELSE DumbSelect(v, id, 1, kth)

\* _relocate_empty_clusters_dense: each empty cluster takes one of the samples
\* farthest from their centres out of its cluster; st = [sums, weights]
RECURSIVE Relocate(_, _, _, _, _, _)
Relocate(Xc, labels, empty, far, idx, st) ==
    IF idx > Len(empty) THEN st
    ELSE LET new == empty[idx]
             fi == far[idx]
             old == labels[fi]
             sums1 == [st.sums EXCEPT ![old] = VecSub(st.sums[old], Xc[fi])]
             sums2 == [sums1 EXCEPT ![new] = Xc[fi]]
             w1 == [st.weights EXCEPT ![new] = 1]
             w2 == [w1 EXCEPT ![old] = w1[old] - 1]
         IN  Relocate(Xc, labels, empty, far, idx + 1, [sums |-> sums2, weights |-> w2])

\* the ascending sequence of the members of a set of integers
RECURSIVE SortedSeq(_)
SortedSeq(S) ==
    IF S = {} THEN <<>>
    ELSE LET m == CHOOSE x \in S : \A y \in S : x <= y
         IN  <<m>> \o SortedSeq(S \ {m})

\* M-step: cluster sums, relocation of empty clusters, _average_centers
UpdateCenters(Xc, ctr, labels) ==
    LET k == Len(ctr)
        n == Len(Xc)
        st0 == [sums |-> AsSeq([j \in 1..k |-> ClusterSum(Xc, labels, j, n)]),
                weights |-> AsSeq([j \in 1..k |-> ClusterWeight(labels, j)])]
        empty == SortedSeq({j \in 1..k : st0.weights[j] = 0})
        n_empty == Len(empty)
        distances == AsSeq([i \in 1..n |-> SqDist(Xc[i], ctr[labels[i]])])
        part == ArgPartition(distances, n - n_empty + 1)
        far == AsSeq([idx \in 1..n_empty |-> part[n - idx + 1]])
        st == IF n_empty = 0 THEN st0 ELSE Relocate(Xc, labels, empty, far, 1, st0)
    IN  AsSeq([j \in 1..k |->
            IF st.weights[j] > 0
                THEN VecScale(st.sums[j], FlDiv(1, st.weights[j]))
                ELSE st.sums[j]])

\* (center_shift ** 2).sum()
CenterShiftTot(old, new) ==
    FlSum(AsSeq([j \in 1..Len(old) |-> SqDist(old[j], new[j])]))

\* convergence checks that leave the iteration cap out
StopReasonNoCap(labels_before, labels, old, new, tolerance, iterations) ==
    IF labels = labels_before THEN "strict"
    ELSE IF FlLe(CenterShiftTot(old, new), tolerance) THEN "tol"
    ELSE ""

\* the convergence checks after an iteration: the labels did not change
\* ("strict"), the centres moved by no more than tol, or the cap is reached
StopReason(labels_before, labels, old, new, tolerance, iterations) ==
    IF labels = labels_before THEN "strict"
    ELSE IF FlLe(CenterShiftTot(old, new), tolerance) THEN "tol"
    ELSE IF iterations >= max_iter THEN "max_iter"
    ELSE ""

\* _init_centroids: the samples k-means++ picks
InitCentroids(Xc, k, raws) ==
    LET ids == kmeans_plusplus(Xc, k, raws)
    IN  AsSeq([j \in 1..k |-> Xc[ids[j]]])

\* ---- the palette --------------------------------------------------------
\* best_centers += X_mean
Uncenter(ctr, px) ==
    LET m == X_mean(px)
    IN  AsSeq([j \in 1..Len(ctr) |-> VecAdd(ctr[j], m)])

\* rounding of a centroid coordinate to the nearest integer, clamped to [0,255]
ToIntNearest(x) == Max2(0, Min2(255, FlRint(x)))

\* model.cluster_centers_.astype(int) (core.py line 116)
ToInt(x) == FlTrunc(x)

CentersToInt(cs) ==
    AsSeq([j \in 1..Len(cs) |-> <<ToInt(cs[j][1]), ToInt(cs[j][2]), ToInt(cs[j][3])>>])

\* 0.2126 * r + 0.7152 * g + 0.0722 * b, in ten-thousandths
luminance(color) == 2126 * color[1] + 7152 * color[2] + 722 * color[3]

\* sorted(key=luminance): a stable sort, ascending in the key
RECURSIVE InsertByLuminance(_, _)
InsertByLuminance(s, x) ==
    IF s = <<>> THEN <<x>>
    ELSE IF luminance(x) < luminance(s[Len(s)])
        THEN Append(InsertByLuminance(SubSeq(s, 1, Len(s) - 1), x), s[Len(s)])
    ELSE Append(s, x)
RECURSIVE SortedByLuminance(_)
SortedByLuminance(s) ==
    IF s = <<>> THEN <<>>
    ELSE InsertByLuminance(SortedByLuminance(SubSeq(s, 1, Len(s) - 1)), s[Len(s)])

\* the emission order of the clustering engine, left unsorted
PaletteUnsorted(cs) == cs

\* the sequence without the repetitions of its elements
RECURSIVE Dedup(_)
Dedup(cs) ==
    IF cs = <<>> THEN <<>>
    ELSE LET rest == Dedup(SubSeq(cs, 1, Len(cs) - 1))
         IN  IF \E i \in 1..Len(rest) : rest[i] = cs[Len(cs)] THEN rest
             ELSE Append(rest, cs[Len(cs)])

\* a sort of the distinct centres only: sorted(set(...), key=luminance)
PaletteSortedDistinct(cs) == SortedByLuminance(Dedup(cs))

\* sorted([tuple(c) for c in centers], key=luminance) (core.py line 123)
PaletteSorted(cs) == SortedByLuminance(cs)

\* n_clusters accepted whatever the sample count
ParamsValidNoCount(n, k) == k >= 1

\* KMeans' parameter validation: n_clusters >= 1 and n_samples >= n_clusters,
\* a ValueError otherwise
ParamsValid(n, k) == k >= 1 /\ n >= k

(***************************************************************************)
(* Driver of rgb_to_hex / hex_to_rgb.                                      *)
(***************************************************************************)
Hashes(n) == [i \in 1..n |-> "#"]

\* the lengths of the input bodies: around the six characters demanded
BodyLengths == (HexLen - 1)..(HexLen - 1 + BodySpread)

InitPal0 ==
    /\ pc = "off"
    /\ pixels = <<>>
    /\ num_colors = 0
    /\ mt = <<>>
    /\ np_random = 0
    /\ X = <<>>
    /\ tol = FlZero
    /\ centers = <<>>
    /\ labels_old = <<>>
    /\ n_iter = 0
    /\ stop = ""
    /\ cluster_centers = <<>>
    /\ palette = <<>>
    /\ prev = <<>>
    /\ calls = 0

InitComp0 ==
    /\ cc_pc = "off"
    /\ cc_color = <<>>
    /\ cc_once = <<>>
    /\ cc_twice = <<>>

InitHex0 ==
    /\ hx_pc = "off"
    /\ hx_rgb = <<>>
    /\ hx_text = <<>>
    /\ hx_result = ValueError

InitHex ==
    /\ \/ /\ hx_pc = "rgb"
          /\ hx_rgb \in Triples(ChannelSamples)
          /\ hx_text = <<>>
       \/ /\ hx_pc = "text"
          /\ hx_rgb = <<>>
          /\ \E h \in 0..MaxHashes : \E n \in BodyLengths :
                \E body \in [1..n -> BodyAlphabet] : hx_text = Hashes(h) \o body
    /\ hx_result = ValueError
    /\ InitComp0
    /\ InitPal0

\* a caller formats a colour ...
CallRgbToHex ==
    /\ hx_pc = "rgb"
    /\ hx_text' = rgb_to_hex(hx_rgb)
    /\ hx_pc' = "text"
    /\ UNCHANGED <<hx_rgb, hx_result>>
    /\ UNCHANGED <<compVars, palVars>>

\* ... and a caller parses a string
CallHexToRgb ==
    /\ hx_pc = "text"
    /\ hx_result' = hex_to_rgb(hx_text)
    /\ hx_pc' = "parsed"
    /\ UNCHANGED <<hx_rgb, hx_text>>
    /\ UNCHANGED <<compVars, palVars>>

NextHex == CallRgbToHex \/ CallHexToRgb

SpecHex == InitHex /\ [][NextHex]_vars

(***************************************************************************)
(* Driver of complementary_color.                                          *)
(***************************************************************************)
InitComp ==
    /\ cc_pc = "in"
    /\ cc_color \in Triples(ChannelSamples)
    /\ cc_once = <<>>
    /\ cc_twice = <<>>
    /\ InitHex0
    /\ InitPal0

Complement ==
    /\ cc_pc = "in"
    /\ cc_once' = complementary_color(cc_color)
    /\ cc_pc' = "once"
    /\ UNCHANGED <<cc_color, cc_twice>>
    /\ UNCHANGED <<hexVars, palVars>>

ComplementAgain ==
    /\ cc_pc = "once"
    /\ cc_twice' = complementary_color(cc_once)
    /\ cc_pc' = "twice"
    /\ UNCHANGED <<cc_color, cc_once>>
    /\ UNCHANGED <<hexVars, palVars>>

NextComp == Complement \/ ComplementAgain

SpecComp == InitComp /\ [][NextComp]_vars

(***************************************************************************)
(* extract_palette (core.py lines 74-124) on a flattened image: the fit's  *)
(* initialisation, one action per Lloyd iteration, and the return.         *)
(***************************************************************************)
RECURSIVE SeqsUpTo(_, _)
\* the non-empty sequences over S of length at most n
SeqsUpTo(S, n) == IF n = 0 THEN {} ELSE SeqsUpTo(S, n - 1) \cup [1..n -> S]

InitPal ==
    /\ pc = "idle"
    /\ pixels \in SeqsUpTo(Colors, MaxPixels) \cup SampleImages
    /\ num_colors \in 0..(Len(pixels) + 1)
    /\ mt \in 0..(RngModulus - 1)
    \* numpy's global generator starts in a state that is left open as well
    \* (a fit reads the seeded generator or the global one, never both)
    /\ np_random = mt
    /\ X = <<>>
    /\ tol = FlZero
    /\ centers = <<>>
    /\ labels_old = <<>>
    /\ n_iter = 0
    /\ stop = ""
    /\ cluster_centers = <<>>
    /\ palette = <<>>
    /\ prev = <<>>
    /\ calls = 0
    /\ InitHex0
    /\ InitComp0

\* model = KMeans(...); model.fit(pixels), up to the initial centroids
Fit ==
    /\ pc = "idle"
    /\ calls' = calls + 1
    /\ IF ~ParamsValid(Len(pixels), num_colors)
         THEN /\ pc' = "error"
              /\ UNCHANGED <<np_random, X, tol, centers, labels_old, n_iter, stop>>
         ELSE /\ X' = Centered(pixels)
              /\ tol' = Tolerance(pixels)
              /\ np_random' = IF random_state.seeded THEN np_random
                              ELSE RngAdvance(np_random, DrawsNeeded(num_colors))
              /\ labels_old' = AsSeq([i \in 1..Len(pixels) |-> 0])
              /\ centers' = InitCentroids(X', num_colors,
                                RngDraws(check_random_state(random_state, mt, np_random),
                                         DrawsNeeded(num_colors)))
              /\ n_iter' = 0
              /\ stop' = ""
              /\ pc' = "lloyd"
    /\ UNCHANGED <<pixels, num_colors, mt, cluster_centers, palette, prev>>
    /\ UNCHANGED <<hexVars, compVars>>

\* one pass of the loop of the Lloyd algorithm and its convergence checks
LloydIter ==
    /\ pc = "lloyd"
    /\ n_iter < max_iter
    /\ labels_old' = Labels(X, centers)
    /\ centers' = UpdateCenters(X, centers, labels_old')
    /\ n_iter' = n_iter + 1
    /\ stop' = StopReason(labels_old, labels_old', centers, centers', tol, n_iter')
    /\ pc' = IF stop' = "" THEN "lloyd" ELSE "fitted"
    /\ UNCHANGED <<pixels, num_colors, mt, np_random, X, tol, cluster_centers,
                   palette, prev, calls>>
    /\ UNCHANGED <<hexVars, compVars>>

\* the end of the fit and lines 116-124: integer centres, sorted by luminance
Return ==
    /\ pc = "fitted"
    /\ cluster_centers' = Uncenter(centers, pixels)
    /\ palette' = PaletteSorted(CentersToInt(cluster_centers'))
    /\ pc' = "done"
    /\ UNCHANGED <<pixels, num_colors, mt, np_random, X, tol, centers, labels_old,
                   n_iter, stop, prev, calls>>
    /\ UNCHANGED <<hexVars, compVars>>

\* the caller calls extract_palette once more on the same image and count
Again ==
    /\ pc \in {"done", "error"}
    /\ prev = <<>>
    /\ prev' = <<[pc |-> pc, palette |-> palette]>>
    /\ pc' = "idle"
    /\ X' = <<>>
    /\ tol' = FlZero
    /\ centers' = <<>>
    /\ labels_old' = <<>>
    /\ n_iter' = 0
    /\ stop' = ""
    /\ cluster_centers' = <<>>
    /\ palette' = <<>>
    /\ UNCHANGED <<pixels, num_colors, mt, np_random, calls>>
    /\ UNCHANGED <<hexVars, compVars>>

NextPal == Fit \/ LloydIter \/ Return \/ Again

SpecPalette == InitPal /\ [][NextPal]_vars

\* the guards of Fit, LloydIter and Return: a call has a step to take
CallEnabled ==
    \/ pc = "idle"
    \/ pc = "lloyd" /\ n_iter < max_iter
    \/ pc = "fitted"

\* a call that has started runs on: the interpreter keeps executing it.
\* This is weak fairness of Fit \/ LloydIter \/ Return with its enabling
\* condition written out as CallEnabled (each of the three actions changes
\* vars, so it is enabled exactly when its guard holds).
SpecPaletteFair ==
    /\ SpecPalette
    /\ \/ []<>(~CallEnabled)
       \/ []<><<Fit \/ LloydIter \/ Return>>_vars

(***************************************************************************)
(* Claims about the hex conversions.                                       *)
(***************************************************************************)
InRange(c) == \A i \in 1..3 : c[i] \in 0..255

\* a string of exactly six hexadecimal characters
SixHex(s) == Len(s) = HexLen /\ \A i \in 1..Len(s) : IsHexDigit(s[i])
IsLowerHex(ch) == \E i \in 1..16 : LowerHexDigits[i] = ch

\* C6: for every triple c with channels in [0,255], rgb_to_hex(c) is '#' and
\* six lowercase hex digits, and hex_to_rgb(rgb_to_hex(c)) = c.
C6_HexRoundTrip ==
    /\ (hx_rgb # <<>> /\ hx_pc \in {"text", "parsed"}) =>
          /\ Len(hx_text) = HexLen + 1
          /\ hx_text[1] = "#"
          /\ \A i \in 2..Len(hx_text) : IsLowerHex(hx_text[i])
    /\ (hx_rgb # <<>> /\ hx_pc = "parsed") =>
          /\ hx_result.ok
          /\ hx_result.rgb = hx_rgb

C6_Witness ==
    /\ hx_pc = "parsed"
    /\ hx_rgb = <<0, 15, 255>>
    /\ hx_text = <<"#", "0", "0", "0", "f", "f", "f">>
    /\ hx_result.rgb = <<0, 15, 255>>

\* C7: hex_to_rgb returns a triple exactly for the strings that, after one
\* optional leading '#' is stripped, are six hexadecimal characters, and
\* fails with a format error for every other string.
C7_StrictHexFormat ==
    hx_pc = "parsed" => (hx_result.ok <=> SixHex(lstripOne(hx_text, "#")))

(***************************************************************************)
(* Claims about complementary_color.                                       *)
(***************************************************************************)
\* C8: for every triple c with channels in [0,255], every channel of
\* complementary_color(c) is an integer in [0,255], and
\* complementary_color(complementary_color(c)) is within 1 of c per channel.
C8_ComplementInvolution ==
    /\ cc_pc \in {"once", "twice"} => InRange(cc_once)
    /\ cc_pc = "twice" =>
          /\ InRange(cc_twice)
          /\ \A i \in 1..3 : Abs(cc_twice[i] - cc_color[i]) <= 1

C8_Witness ==
    /\ cc_pc = "twice"
    /\ cc_color = <<255, 0, 0>>
    /\ cc_once = <<0, 255, 255>>
    /\ cc_twice = <<255, 0, 0>>

(***************************************************************************)
(* Claims about extract_palette.                                           *)
(***************************************************************************)
Range(s) == {s[i] : i \in 1..Len(s)}
DistinctColors == Cardinality(Range(pixels))

\* C1: for a non-empty sample collection and 1 <= k <= number of samples
\* (also with fewer than k distinct colours), extract_palette returns exactly
\* k entries, every channel an integer in [0,255].
C1_ExactlyKEntriesInRange ==
    /\ (pc \in {"lloyd", "fitted", "done"}) =>
          (num_colors >= 1 /\ num_colors <= Len(pixels))
    /\ (num_colors >= 1 /\ num_colors <= Len(pixels) /\ pc \notin {"idle", "off"}) =>
          pc \in {"lloyd", "fitted", "done"}
    /\ pc = "done" =>
          /\ Len(palette) = num_colors
          /\ \A i \in 1..Len(palette) : InRange(palette[i])

C1_Witness ==
    /\ pc = "done"
    /\ num_colors = 3
    /\ DistinctColors = 1
    /\ Len(palette) = 3

\* C2: two calls of extract_palette with identical samples and identical k
\* return identical palettes (same colours, same order), whatever state the
\* earlier call left behind.
C2_Deterministic ==
    (pc \in {"done", "error"} /\ prev # <<>>) =>
        (prev[1].pc = pc /\ prev[1].palette = palette)

C2_Witness ==
    /\ pc = "done"
    /\ prev # <<>>
    /\ num_colors = 2
    /\ DistinctColors = 3
    /\ prev[1].palette = palette

\* C3: in the returned palette, luminance(entry i) <= luminance(entry j) for
\* all positions i < j.
C3_LuminanceAscending ==
    pc = "done" =>
        \A i \in 1..Len(palette) : \A j \in 1..Len(palette) :
            i < j => luminance(palette[i]) <= luminance(palette[j])

C3_Witness ==
    /\ pc = "done"
    /\ Len(palette) >= 2
    /\ palette # CentersToInt(cluster_centers)
    /\ luminance(palette[1]) < luminance(palette[Len(palette)])

CentersToNearest(cs) ==
    AsSeq([j \in 1..Len(cs) |->
             <<ToIntNearest(cs[j][1]), ToIntNearest(cs[j][2]), ToIntNearest(cs[j][3])>>])

\* C4: each channel of each palette entry is the centroid coordinate rounded
\* to the nearest integer and clamped to [0,255].
C4_RoundToNearest ==
    pc = "done" => palette = PaletteSorted(CentersToNearest(cluster_centers))

\* C5: with k < 1 or k greater than the number of samples, extract_palette
\* fails with an error and returns no palette; no other k is substituted.
C5_InvalidKFails ==
    (pc \notin {"idle", "off"} /\ (num_colors < 1 \/ num_colors > Len(pixels))) =>
        (pc = "error" /\ palette = <<>> /\ centers = <<>>)

C5_Witness ==
    /\ pc = "error"
    /\ num_colors = Len(pixels) + 1
    /\ palette = <<>>

\* C9: when the samples hold exactly k distinct colours, extract_palette with
\* that k returns exactly those k colours, in ascending luminance.
C9_ExactColorsRecovered ==
    (pc = "done" /\ DistinctColors = num_colors) =>
        /\ Range(palette) = Range(pixels)
        /\ Len(palette) = num_colors
        /\ \A i \in 1..Len(palette) : \A j \in 1..Len(palette) :
              i < j => luminance(palette[i]) <= luminance(palette[j])

\* C10: the clustering loop always terminates: it stops as soon as no sample
\* changes cluster between two iterations, or when the iteration cap is
\* reached, and a capped run returns its centroids as a normal result.
C10_LoopTerminates ==
    /\ [](n_iter <= max_iter)
    /\ [][(pc = "lloyd" /\ Labels(X, centers) = labels_old) => pc' = "fitted"]_vars
    /\ [][(pc = "lloyd" /\ n_iter + 1 = max_iter) => pc' = "fitted"]_vars
    /\ [](pc = "fitted" => stop \in {"strict", "tol", "max_iter"})
    /\ [](pc = "done" => Len(palette) = num_colors)
    /\ ((pc = "lloyd") ~> (pc = "done"))

C10_Witness ==
    /\ pc = "done"
    /\ stop = "max_iter"
    /\ n_iter = max_iter
    /\ Len(palette) = num_colors

====
